---- MODULE Spec2Model ----
(***************************************************************************)
(* Model of zoneminder-loki (src/main.py): the ZmLokiShipper control loop  *)
(* that reads rows of the ZoneMinder Logs table, posts them to Loki and    *)
(* keeps its position in a pointer file.                                   *)
(*                                                                         *)
(* The process is modelled statement by statement at the points where its  *)
(* environment can observe or interrupt it: the pointer file on disk, the  *)
(* Logs table, the Loki endpoint, a kill of the process and its restart.   *)
(***************************************************************************)
EXTENDS Integers, Sequences, FiniteSets, TLC

(* ---------------------------------------------------------------------- *)
(* Bounds of the model                                                     *)
(* ---------------------------------------------------------------------- *)

\* Most rows the Logs table ever holds.
MaxRows == 3

\* Id of the oldest row of the table (the rows before it were pruned); the
\* Ids of the model then cross from one to two decimal digits.
FirstId == 9

\* The Ids the table can hold: consecutive, in insertion order.
RowIds == FirstId..(FirstId + MaxRows - 1)

\* self._batch_size (rows per cursor.fetchmany call).
BatchSize == 1

(* ---------------------------------------------------------------------- *)
(* Text of the pointer file: str(int) and int(str.strip())                 *)
(* ---------------------------------------------------------------------- *)

Digits == <<"0", "1", "2", "3", "4", "5", "6", "7", "8", "9">>

DigitSet == {Digits[i] : i \in 1..10}

Whitespace == {" ", "\n"}

DigitVal(c) == CHOOSE d \in 0..9 : Digits[d + 1] = c

RECURSIVE StrOfNat(_)
StrOfNat(n) ==
    IF n < 10 THEN <<Digits[n + 1]>>
    ELSE StrOfNat(n \div 10) \o <<Digits[(n % 10) + 1]>>

\* str(self._pointer)
StrOfInt(n) == IF n < 0 THEN <<"-">> \o StrOfNat(0 - n) ELSE StrOfNat(n)

RECURSIVE LStrip(_)
LStrip(s) ==
    IF s # <<>> /\ Head(s) \in Whitespace THEN LStrip(Tail(s)) ELSE s

RECURSIVE RStrip(_)
RStrip(s) ==
    IF s # <<>> /\ s[Len(s)] \in Whitespace
    THEN RStrip(SubSeq(s, 1, Len(s) - 1))
    ELSE s

\* fh.read().strip()
Strip(s) == RStrip(LStrip(s))

IsDigits(s) == Len(s) > 0 /\ \A i \in 1..Len(s) : s[i] \in DigitSet

RECURSIVE NatOfStr(_)
NatOfStr(s) ==
    IF s = <<>> THEN 0
    ELSE NatOfStr(SubSeq(s, 1, Len(s) - 1)) * 10 + DigitVal(s[Len(s)])

\* Optional[int]: None, or an int.
None == [some |-> FALSE, val |-> 0]

Some(v) == [some |-> TRUE, val |-> v]

\* int(text): an optional sign followed by decimal digits, else ValueError
\* (reported here as None).
IntOfStr(s) ==
    IF IsDigits(s) THEN Some(NatOfStr(s))
    ELSE IF s # <<>> /\ Head(s) = "-" /\ IsDigits(Tail(s))
         THEN Some(0 - NatOfStr(Tail(s)))
    ELSE IF s # <<>> /\ Head(s) = "+" /\ IsDigits(Tail(s))
         THEN Some(NatOfStr(Tail(s)))
    ELSE None

\* The pointer file: absent, or present with a text content.
Absent == [exists |-> FALSE, content |-> <<>>]

FileOf(text) == [exists |-> TRUE, content |-> text]

\* ZmLokiShipper._read_pointer: every exception (file absent, unreadable
\* text) is logged and turned into None.
ReadPointerValue(f) ==
    IF ~f.exists THEN None ELSE IntOfStr(Strip(f.content))

\* Truth value of "pointer := self._read_pointer()" in the if statement:
\* None and 0 are both false.
Truthy(opt) == opt.some /\ opt.val # 0

(* ---------------------------------------------------------------------- *)
(* Helpers on sets and sequences of row ids                                *)
(* ---------------------------------------------------------------------- *)

Max(S) == CHOOSE x \in S : \A y \in S : y <= x

Min(S) == CHOOSE x \in S : \A y \in S : x <= y

\* ORDER BY Id ASC
RECURSIVE SortedSeq(_)
SortedSeq(S) ==
    IF S = {} THEN <<>> ELSE <<Min(S)>> \o SortedSeq(S \ {Min(S)})

Ids(rows) == {rows[i] : i \in 1..Len(rows)}

MinNat(a, b) == IF a < b THEN a ELSE b

\* FetchMany taking every row left in the cursor, whatever the size.
FetchAll(res, size) == res

\* cursor.fetchmany(size): the next rows of the buffered result set.
FetchMany(res, size) == SubSeq(res, 1, MinNat(size, Len(res)))

RestAfterFetch(res, size) == SubSeq(res, MinNat(size, Len(res)) + 1, Len(res))

(* ---------------------------------------------------------------------- *)
(* Rows of the Logs table and the payload built from them                  *)
(* ---------------------------------------------------------------------- *)

\* zm_level_name with every level outside the table named 'unknown' (the
\* override for the debug levels left out).
ZmLevelNameNoDebug(level) ==
    CASE level = -5 -> "nolog"
      [] level = -4 -> "panic"
      [] level = -3 -> "fatal"
      [] level = -2 -> "error"
      [] level = -1 -> "warning"
      [] level = 0 -> "info"
      [] OTHER -> "unknown"

\* zm_level_name: the match statement, then the override for level >= 1.
zm_level_name(level) ==
    LET name == CASE level = -5 -> "nolog"
                  [] level = -4 -> "panic"
                  [] level = -3 -> "fatal"
                  [] level = -2 -> "error"
                  [] level = -1 -> "warning"
                  [] level = 0 -> "info"
                  [] OTHER -> "unknown"
    IN IF level >= 1 THEN "debug" ELSE name

\* Loki needs a nanoseconds timestamp (line 233).
NanosPerSecond == 1000000000

\* TimeKey is a Decimal of seconds; the model keeps it in tenths of a
\* second, and int(row['TimeKey']) drops the fraction.
IntOfTimeKey(tenths) == tenths \div 10

\* self._labels
CommonLabels == [host |-> "loghost", job |-> "zoneminder-loki"]

\* The labels tuple of a row, lines 223-230.
Labels(row) ==
    [component |-> row.Component,
     server_id |-> StrOfInt(row.ServerId),
     PID |-> StrOfInt(row.Pid),
     level |-> zm_level_name(row.Level),
     file |-> row.File,
     line |-> StrOfInt(row.Line)]

\* The value appended for a row, lines 231-235.
Value(row) ==
    <<StrOfInt(IntOfTimeKey(row.TimeKey) * NanosPerSecond), row.Message>>

\* AddRow that opens a new stream for every row, merging nothing.
AddRowNoMerge(streams, row) ==
    Append(streams, [keys |-> Labels(row), vals |-> <<Value(row)>>])

\* streams[labels].append(...), line 231: streams is a defaultdict(list),
\* which keeps its keys in the order of their first use.
AddRow(streams, row) ==
    IF \E i \in 1..Len(streams) : streams[i].keys = Labels(row)
    THEN LET i == CHOOSE j \in 1..Len(streams) : streams[j].keys = Labels(row)
         IN [streams EXCEPT ![i].vals = Append(@, Value(row))]
    ELSE Append(streams, [keys |-> Labels(row), vals |-> <<Value(row)>>])

\* The loop of lines 222-235 over the rows of the batch.
RECURSIVE Streams(_)
Streams(rows) ==
    IF rows = <<>> THEN <<>>
    ELSE AddRow(Streams(SubSeq(rows, 1, Len(rows) - 1)), rows[Len(rows)])

\* data['streams'], lines 236-241: one entry per key of streams, its labels
\* merged with the common labels.
Data(rows) ==
    [i \in 1..Len(Streams(rows)) |->
        [stream |-> CommonLabels @@ Streams(rows)[i].keys,
         values |-> Streams(rows)[i].vals]]

\* The row of the table with a given Id. Only Id decides what run() does;
\* the other columns are fixed here, neighbouring rows coming from
\* different components.
RowOf(id) ==
    [Id |-> id, TimeKey |-> 19,
     Component |-> IF id % 2 = 0 THEN "zmc_m2" ELSE "zmc_m1",
     ServerId |-> 0, Pid |-> 79, Level |-> 0, Message |-> "a",
     File |-> "zm_monitor.cpp", Line |-> 1680]

\* The rows _handle_rows receives for a batch of Ids.
RowsOf(ids) == [i \in 1..Len(ids) |-> RowOf(ids[i])]

(* ---------------------------------------------------------------------- *)
(* State                                                                   *)
(* ---------------------------------------------------------------------- *)

VARIABLES
    logs,       \* Ids of the rows of the Logs table
    recent,     \* Ids of the rows with TimeKey >= the backfill threshold
    file,       \* the pointer file on disk
    writable,   \* whether open(self._pointer_path, 'w') succeeds
    pointer,    \* self._pointer
    pc,         \* position of the process in run()
    phase,      \* "startup", "backfill" or "poll": which loop calls _handle_rows
    result,     \* rows of the executed query not yet fetched from the cursor
    batch,      \* rows handed to _handle_rows
    confirmed,  \* Ids of the rows Loki has answered 204 for (all runs)
    status,     \* outcome of the last _loki_post of this run
    cause,      \* why the process is not running
    seed,       \* row['Id'] of the max-id lookup of _backfill (0: not run)
    durable,    \* <<v>>: the last value completely written to the file
    found,      \* Ids returned by the last query of this run
    posts,      \* number of POSTs since the last query of this run
    lastSent,   \* highest Id handed to Loki in this run (0: none)
    lastShipped,\* Ids of the batch Loki answered 204 for most recently
    bfDone,     \* some run has ended its backfill and entered the polling loop
    srcErr,     \* a query has failed and no batch was answered 204 since
    levelIn,    \* argument of zm_level_name
    levelOut,   \* its result ("": not called)
    rowsIn,     \* argument of _handle_rows
    streamsOut  \* data['streams'] built by _handle_rows

\* The controller, its environment and the history kept about them.
ctlVars == <<logs, recent, file, writable, pointer, pc, phase, result, batch,
             confirmed, status, cause, seed, durable, found, posts, lastSent,
             lastShipped, bfDone, srcErr>>

\* The arguments and results of the functions applied on their own.
funVars == <<levelIn, levelOut, rowsIn, streamsOut>>

vars == <<ctlVars, funVars>>

\* Answers of the sink: HTTP 204, another HTTP status, or no answer at all.
SinkAnswers == {"204", "500", "ConnectionError"}

(* ---------------------------------------------------------------------- *)
(* Initial states                                                          *)
(* ---------------------------------------------------------------------- *)

\* What __init__ leaves in memory (self._pointer = -1) before run().
Fresh ==
    /\ pointer = -1
    /\ pc = "start"
    /\ phase = "startup"
    /\ result = <<>>
    /\ batch = <<>>
    /\ status = "none"
    /\ cause = "none"
    /\ seed = 0
    /\ found = {}
    /\ posts = 0
    /\ lastSent = 0

\* A table that already holds some rows, some of them inside the backfill
\* window, and Loki has confirmed nothing yet.
Source ==
    /\ \E n \in 0..MaxRows : logs = {id \in RowIds : id < FirstId + n}
    /\ recent \in SUBSET logs
    /\ confirmed = {}
    /\ lastShipped = {}
    /\ bfDone = FALSE
    /\ srcErr = FALSE

\* No function has been applied on its own.
NoCall ==
    /\ levelIn = 0
    /\ levelOut = ""
    /\ rowsIn = <<>>
    /\ streamsOut = <<>>

\* First deployment: no pointer file exists.
Init ==
    /\ Fresh
    /\ Source
    /\ NoCall
    /\ file = Absent
    /\ writable \in BOOLEAN
    /\ durable = <<>>

\* Contents an operator (or an earlier version) may have left in the
\* pointer file before the process starts.
SeededFiles ==
    {Absent, FileOf(<<>>), FileOf(<<"x">>), FileOf(<<"1", "0", "\n">>)}
        \cup {FileOf(StrOfInt(v)) : v \in {-1, 0} \cup RowIds}

InitSeeded ==
    /\ Fresh
    /\ Source
    /\ NoCall
    /\ file \in SeededFiles
    /\ writable \in BOOLEAN
    /\ durable = <<>>

(* ---------------------------------------------------------------------- *)
(* The process                                                             *)
(* ---------------------------------------------------------------------- *)

\* An uncaught exception leaves run(): the process ends.
Terminate(why) ==
    /\ pc' = "dead"
    /\ cause' = why

\* run(), lines 172-179: read the pointer file; a true value is kept and
\* written back, anything else starts the backfill.
ReadPointer ==
    /\ pc = "start"
    /\ LET r == ReadPointerValue(file) IN
         IF Truthy(r)
         THEN /\ pointer' = r.val
              /\ pc' = "wb_open"
              /\ phase' = "startup"
         ELSE /\ pointer' = pointer
              /\ pc' = "bf_maxid"
              /\ phase' = "backfill"
    /\ UNCHANGED <<logs, recent, file, writable, result, batch, confirmed,
                   status, cause, seed, durable, found, posts, lastSent,
                   lastShipped, bfDone, srcErr>>
    /\ UNCHANGED funVars

\* _write_pointer, line 157: open(path, 'w') creates or truncates the file,
\* or raises when the path cannot be written.
WritePointerOpen ==
    /\ pc \in {"wb_open", "hr_open"}
    /\ IF writable
       THEN /\ file' = FileOf(<<>>)
            /\ pc' = IF pc = "wb_open" THEN "wb_write" ELSE "hr_write"
            /\ cause' = cause
       ELSE /\ file' = file
            /\ Terminate("PermissionError")
    /\ UNCHANGED <<logs, recent, writable, pointer, phase, result, batch,
                   confirmed, status, seed, durable, found, posts, lastSent,
                   lastShipped, bfDone, srcErr>>
    /\ UNCHANGED funVars

\* _write_pointer, line 158 and the end of the with block: the text of
\* self._pointer reaches the file; control returns to the caller's loop.
WritePointerClose ==
    /\ pc \in {"wb_write", "hr_write"}
    /\ file' = FileOf(StrOfInt(pointer))
    /\ durable' = <<pointer>>
    /\ pc' = IF pc = "wb_write" THEN "poll_query"
             ELSE IF phase = "backfill" THEN "bf_fetch" ELSE "poll_fetch"
    /\ phase' = IF pc = "wb_write" THEN "poll" ELSE phase
    /\ UNCHANGED <<logs, recent, writable, pointer, result, batch, confirmed,
                   status, cause, seed, found, posts, lastSent, lastShipped,
                   bfDone, srcErr>>
    /\ UNCHANGED funVars

\* A query of the source fails (connection lost, table unavailable): the
\* exception of pymysql leaves run().
QueryFails ==
    /\ Terminate("MySQLError")
    /\ srcErr' = TRUE

\* BackfillMaxId with the fallback pointer also written to the file, before
\* any row has been posted.
BackfillMaxIdPersistsSeed ==
    /\ pc = "bf_maxid"
    /\ \/ /\ QueryFails
          /\ UNCHANGED <<pointer, seed, file>>
       \/ /\ srcErr' = srcErr
          /\ IF logs = {}
             THEN /\ Terminate("TypeError")
                  /\ UNCHANGED <<pointer, seed, file>>
             ELSE /\ pointer' = Max(logs)
                  /\ seed' = Max(logs)
                  /\ file' = FileOf(StrOfInt(Max(logs)))
                  /\ pc' = "bf_query"
                  /\ cause' = cause
    /\ UNCHANGED <<logs, recent, writable, phase, result, batch, confirmed,
                   status, durable, found, posts, lastSent, lastShipped,
                   bfDone>>
    /\ UNCHANGED funVars

\* _backfill, lines 257-263: the fallback pointer is the highest Id of the
\* table; fetchone() of an empty table is None and row['Id'] raises.
BackfillMaxId ==
    /\ pc = "bf_maxid"
    /\ \/ /\ QueryFails
          /\ UNCHANGED <<pointer, seed>>
       \/ /\ srcErr' = srcErr
          /\ IF logs = {}
             THEN /\ Terminate("TypeError")
                  /\ UNCHANGED <<pointer, seed>>
             ELSE /\ pointer' = Max(logs)
                  /\ seed' = Max(logs)
                  /\ pc' = "bf_query"
                  /\ cause' = cause
    /\ UNCHANGED <<logs, recent, file, writable, phase, result, batch,
                   confirmed, status, durable, found, posts, lastSent,
                   lastShipped, bfDone>>
    /\ UNCHANGED funVars

\* BackfillQuery with the position saved when the query fails.
BackfillQuerySavesOnError ==
    /\ pc = "bf_query"
    /\ \/ /\ QueryFails
          /\ file' = FileOf(StrOfInt(pointer))
          /\ UNCHANGED <<result, found, posts>>
       \/ /\ result' = SortedSeq(recent)
          /\ found' = recent
          /\ posts' = 0
          /\ pc' = "bf_fetch"
          /\ UNCHANGED <<cause, srcErr, file>>
    /\ UNCHANGED <<logs, recent, writable, pointer, phase, batch,
                   confirmed, status, seed, durable, lastSent, lastShipped,
                   bfDone>>
    /\ UNCHANGED funVars

\* _backfill, lines 264-268: rows with TimeKey >= threshold, by Id.
BackfillQuery ==
    /\ pc = "bf_query"
    /\ \/ /\ QueryFails
          /\ UNCHANGED <<result, found, posts>>
       \/ /\ result' = SortedSeq(recent)
          /\ found' = recent
          /\ posts' = 0
          /\ pc' = "bf_fetch"
          /\ UNCHANGED <<cause, srcErr>>
    /\ UNCHANGED <<logs, recent, file, writable, pointer, phase, batch,
                   confirmed, status, seed, durable, lastSent, lastShipped,
                   bfDone>>
    /\ UNCHANGED funVars

\* BackfillFetch with the position written to the file when the backfill
\* ends.
BackfillFetchPersists ==
    /\ pc = "bf_fetch"
    /\ IF FetchMany(result, BatchSize) = <<>>
       THEN /\ pc' = "poll_query"
            /\ phase' = "poll"
            /\ bfDone' = TRUE
            /\ file' = FileOf(StrOfInt(pointer))
            /\ UNCHANGED <<result, batch>>
       ELSE /\ batch' = FetchMany(result, BatchSize)
            /\ result' = RestAfterFetch(result, BatchSize)
            /\ pc' = "post"
            /\ UNCHANGED <<phase, bfDone, file>>
    /\ UNCHANGED <<logs, recent, writable, pointer, confirmed, status,
                   cause, seed, durable, found, posts, lastSent, lastShipped,
                   srcErr>>
    /\ UNCHANGED funVars

\* _backfill, lines 270-273: the next batch goes to _handle_rows; an empty
\* fetch ends the backfill and run() enters the polling loop.
BackfillFetch ==
    /\ pc = "bf_fetch"
    /\ IF FetchMany(result, BatchSize) = <<>>
       THEN /\ pc' = "poll_query"
            /\ phase' = "poll"
            /\ bfDone' = TRUE
            /\ UNCHANGED <<result, batch>>
       ELSE /\ batch' = FetchMany(result, BatchSize)
            /\ result' = RestAfterFetch(result, BatchSize)
            /\ pc' = "post"
            /\ UNCHANGED <<phase, bfDone>>
    /\ UNCHANGED <<logs, recent, file, writable, pointer, confirmed, status,
                   cause, seed, durable, found, posts, lastSent, lastShipped,
                   srcErr>>
    /\ UNCHANGED funVars

\* PollQuery selecting Id >= self._pointer.
PollQueryInclusive ==
    /\ pc = "poll_query"
    /\ \/ /\ QueryFails
          /\ UNCHANGED <<result, found, posts>>
       \/ /\ result' = SortedSeq({id \in logs : id >= pointer})
          /\ found' = {id \in logs : id >= pointer}
          /\ posts' = 0
          /\ pc' = "poll_fetch"
          /\ UNCHANGED <<cause, srcErr>>
    /\ UNCHANGED <<logs, recent, file, writable, pointer, phase, batch,
                   confirmed, status, seed, durable, lastSent, lastShipped,
                   bfDone>>
    /\ UNCHANGED funVars

\* run(), lines 189-194: rows with Id > self._pointer, by Id.
PollQuery ==
    /\ pc = "poll_query"
    /\ \/ /\ QueryFails
          /\ UNCHANGED <<result, found, posts>>
       \/ /\ result' = SortedSeq({id \in logs : id > pointer})
          /\ found' = {id \in logs : id > pointer}
          /\ posts' = 0
          /\ pc' = "poll_fetch"
          /\ UNCHANGED <<cause, srcErr>>
    /\ UNCHANGED <<logs, recent, file, writable, pointer, phase, batch,
                   confirmed, status, seed, durable, lastSent, lastShipped,
                   bfDone>>
    /\ UNCHANGED funVars

\* run(), lines 195-197: the next batch goes to _handle_rows; an empty
\* fetch ends the cycle.
PollFetch ==
    /\ pc = "poll_fetch"
    /\ IF FetchMany(result, BatchSize) = <<>>
       THEN /\ pc' = "sleep"
            /\ UNCHANGED <<result, batch>>
       ELSE /\ batch' = FetchMany(result, BatchSize)
            /\ result' = RestAfterFetch(result, BatchSize)
            /\ pc' = "post"
    /\ UNCHANGED <<logs, recent, file, writable, pointer, phase, confirmed,
                   status, cause, seed, durable, found, posts, lastSent,
                   lastShipped, bfDone, srcErr>>
    /\ UNCHANGED funVars

\* run(), lines 198-201: sleep, then the next cycle.
Sleep ==
    /\ pc = "sleep"
    /\ pc' = "poll_query"
    /\ UNCHANGED <<logs, recent, file, writable, pointer, phase, result,
                   batch, confirmed, status, cause, seed, durable, found,
                   posts, lastSent, lastShipped, bfDone, srcErr>>
    /\ UNCHANGED funVars

\* LokiPost without the check of the answer (the assert not evaluated):
\* _handle_rows goes on after any answer.
LokiPostUnchecked ==
    /\ pc = "post"
    /\ posts' = posts + 1
    /\ lastSent' = Max(Ids(batch))
    /\ \E answer \in SinkAnswers :
         /\ status' = answer
         /\ confirmed' = IF answer = "204" THEN confirmed \cup Ids(batch)
                         ELSE confirmed
         /\ lastShipped' = IF answer = "204" THEN Ids(batch) ELSE lastShipped
         /\ srcErr' = IF answer = "204" THEN FALSE ELSE srcErr
         /\ pc' = "setptr"
    /\ UNCHANGED <<logs, recent, file, writable, pointer, phase, result,
                   batch, seed, durable, cause, found, bfDone>>
    /\ UNCHANGED funVars

\* _handle_rows line 242 and _loki_post: one POST of the batch; an answer
\* other than 204 fails the assert, no answer raises in requests; both
\* exceptions leave run().
LokiPost ==
    /\ pc = "post"
    /\ posts' = posts + 1
    /\ lastSent' = Max(Ids(batch))
    /\ \E answer \in SinkAnswers :
         /\ status' = answer
         /\ IF answer = "204"
            THEN /\ confirmed' = confirmed \cup Ids(batch)
                 /\ lastShipped' = Ids(batch)
                 /\ srcErr' = FALSE
                 /\ pc' = "setptr"
                 /\ cause' = cause
            ELSE /\ UNCHANGED <<confirmed, lastShipped, srcErr>>
                 /\ Terminate(IF answer = "ConnectionError"
                              THEN "ConnectionError" ELSE "AssertionError")
    /\ UNCHANGED <<logs, recent, file, writable, pointer, phase, result,
                   batch, seed, durable, found, bfDone>>
    /\ UNCHANGED funVars

\* _handle_rows, line 243: self._pointer = max Id of the batch.
SetPointer ==
    /\ pc = "setptr"
    /\ pointer' = Max(Ids(batch))
    /\ pc' = "hr_open"
    /\ UNCHANGED <<logs, recent, file, writable, phase, result, batch,
                   confirmed, status, cause, seed, durable, found, posts,
                   lastSent, lastShipped, bfDone, srcErr>>
    /\ UNCHANGED funVars

(* ---------------------------------------------------------------------- *)
(* The environment                                                         *)
(* ---------------------------------------------------------------------- *)

\* The process is killed (or the host goes down) at any point.
Crash ==
    /\ pc # "dead"
    /\ Terminate("crash")
    /\ UNCHANGED <<logs, recent, file, writable, pointer, phase, result,
                   batch, confirmed, status, seed, durable, found, posts,
                   lastSent, lastShipped, bfDone, srcErr>>
    /\ UNCHANGED funVars

\* The supervisor starts the program again: __init__ and run() anew.
Restart ==
    /\ pc = "dead"
    /\ pointer' = -1
    /\ pc' = "start"
    /\ phase' = "startup"
    /\ result' = <<>>
    /\ batch' = <<>>
    /\ status' = "none"
    /\ cause' = "none"
    /\ seed' = 0
    /\ found' = {}
    /\ posts' = 0
    /\ lastSent' = 0
    /\ UNCHANGED <<logs, recent, file, writable, confirmed, durable,
                   lastShipped, bfDone, srcErr>>
    /\ UNCHANGED funVars

\* ZoneMinder writes a row: the next Id, with a current TimeKey.
Insert ==
    /\ Cardinality(logs) < MaxRows
    /\ logs' = logs \cup {FirstId + Cardinality(logs)}
    /\ recent' = recent \cup {FirstId + Cardinality(logs)}
    /\ UNCHANGED <<file, writable, pointer, pc, phase, result, batch,
                   confirmed, status, cause, seed, durable, found, posts,
                   lastSent, lastShipped, bfDone, srcErr>>
    /\ UNCHANGED funVars

\* Time passes: a row falls out of the backfill window. _backfill computes
\* its threshold once (line 247), so the window of a running backfill is
\* fixed until its query has run.
Age ==
    /\ pc # "bf_query"
    /\ \E id \in recent : recent' = recent \ {id}
    /\ UNCHANGED <<logs, file, writable, pointer, pc, phase, result, batch,
                   confirmed, status, cause, seed, durable, found, posts,
                   lastSent, lastShipped, bfDone, srcErr>>
    /\ UNCHANGED funVars

\* The storage of the pointer file becomes read-only, or writable again.
Remount ==
    /\ writable' = ~writable
    /\ UNCHANGED <<logs, recent, file, pointer, pc, phase, result, batch,
                   confirmed, status, cause, seed, durable, found, posts,
                   lastSent, lastShipped, bfDone, srcErr>>
    /\ UNCHANGED funVars

Next ==
    \/ ReadPointer
    \/ WritePointerOpen
    \/ WritePointerClose
    \/ BackfillMaxId
    \/ BackfillQuery
    \/ BackfillFetch
    \/ PollQuery
    \/ PollFetch
    \/ Sleep
    \/ LokiPost
    \/ SetPointer
    \/ Crash
    \/ Restart
    \/ Insert
    \/ Age
    \/ Remount

Spec == Init /\ [][Next]_vars

SpecSeeded == InitSeeded /\ [][Next]_vars

(* ---------------------------------------------------------------------- *)
(* zm_level_name and the grouping of _handle_rows applied on their own     *)
(* ---------------------------------------------------------------------- *)

\* Levels are drawn from -LevelSpan..LevelSpan.
LevelSpan == 60

\* Most rows of a batch handed to the grouping.
MaxBatch == 3

\* The controller does not run.
Idle ==
    /\ Fresh
    /\ logs = {}
    /\ recent = {}
    /\ confirmed = {}
    /\ lastShipped = {}
    /\ bfDone = FALSE
    /\ srcErr = FALSE
    /\ file = Absent
    /\ writable = TRUE
    /\ durable = <<>>

\* The columns that vary between the rows of a batch: two components, three
\* levels of which two share a name, two TimeKeys half a second apart.
RowColumns ==
    [Component : {"zmc_m1", "zmc_m2"}, Level : {0, 1, 2}, TimeKey : {19, 20}]

\* The i-th row of a batch: Ids ascend with the position (ORDER BY Id ASC).
BatchRow(i, c) ==
    [Id |-> FirstId + i - 1, TimeKey |-> c.TimeKey, Component |-> c.Component,
     ServerId |-> 0, Pid |-> 79, Level |-> c.Level, Message |-> "a",
     File |-> "zm_monitor.cpp", Line |-> 1680]

\* The batches of one to MaxBatch rows.
Batches ==
    UNION {{[i \in 1..n |-> BatchRow(i, cols[i])] : cols \in [1..n -> RowColumns]}
              : n \in 1..MaxBatch}

InitLevel ==
    /\ Idle
    /\ levelIn \in (0 - LevelSpan)..LevelSpan
    /\ levelOut = ""
    /\ rowsIn = <<>>
    /\ streamsOut = <<>>

\* A call of zm_level_name.
ZmLevelName ==
    /\ levelOut = ""
    /\ levelOut' = zm_level_name(levelIn)
    /\ UNCHANGED <<levelIn, rowsIn, streamsOut>>
    /\ UNCHANGED ctlVars

SpecLevel == InitLevel /\ [][ZmLevelName]_vars

InitRows ==
    /\ Idle
    /\ levelIn = 0
    /\ levelOut = ""
    /\ rowsIn \in Batches
    /\ streamsOut = <<>>

\* The payload _handle_rows builds for a batch, lines 221-241.
HandleRowsData ==
    /\ streamsOut = <<>>
    /\ streamsOut' = Data(rowsIn)
    /\ UNCHANGED <<levelIn, levelOut, rowsIn>>
    /\ UNCHANGED ctlVars

SpecRows == InitRows /\ [][HandleRowsData]_vars

(* ---------------------------------------------------------------------- *)
(* Properties                                                              *)
(* ---------------------------------------------------------------------- *)

\* Answers of the sink that fail _loki_post.
FailedAnswers == SinkAnswers \ {"204"}

\* What a start of the process would read from the pointer file.
FileValue == ReadPointerValue(file)

\* C1: when the sink request of a batch fails (a status other than 204, or
\* no answer), the pointer file and self._pointer keep the values they had
\* before the attempt: in the failing step and in every later step of the
\* run, neither is changed.
C1_FailedShipLeavesCheckpoint ==
    [][status' \in FailedAnswers => (file' = file /\ pointer' = pointer)]_vars

\* C1 witness: in the polling loop, with a checkpoint on disk, a request was
\* answered with a failure.
C1_Witness ==
    /\ status \in FailedAnswers
    /\ phase = "poll"
    /\ batch # <<>>
    /\ FileValue.some

\* C2 (as claimed): for a batch answered 204, in the backfill and in the
\* polling loop, the new position is the highest Id of the batch and is not
\* below the position held before, and the file holds it after the write.
C2_Claim ==
    [][/\ (pc = "setptr" /\ pc' = "hr_open")
            => (pointer' = Max(Ids(batch)) /\ pointer' >= pointer)
       /\ (pc = "hr_write" /\ pc' \in {"bf_fetch", "poll_fetch"})
            => ReadPointerValue(file') = Some(Max(Ids(batch)))]_vars

\* C3: in every reachable state the value held by the pointer file is not
\* above the highest Id Loki has confirmed so far, in any run.
C3_FileNeverAhead ==
    FileValue.some => (confirmed # {} /\ FileValue.val <= Max(confirmed))

\* C3 witness: the process was killed between the 204 and the end of the
\* write, and the file holds a value below the highest confirmed Id.
C3_Witness ==
    /\ pc = "dead"
    /\ cause = "crash"
    /\ FileValue.some
    /\ \E id \in confirmed : id > FileValue.val

\* C4 (as claimed): the position held by a run never decreases, and the
\* values completely written to the pointer file never decrease, across
\* writes and restarts.
C4_Claim ==
    [][/\ (pointer # -1 /\ pc' # "start") => pointer' >= pointer
       /\ (durable # <<>>) => durable'[1] >= durable[1]]_vars

\* C5 (as claimed, its safety part): no row above the last persisted
\* checkpoint is skipped: while the process polls from a position, every
\* row above the last value written to the file and up to that position has
\* been confirmed by Loki.
C5_Claim ==
    (durable # <<>> /\ phase = "poll" /\ pc # "dead")
        => \A id \in logs :
             (id > durable[1] /\ id <= pointer) => id \in confirmed

\* C6 (as claimed): a failed sink request does not end the process and
\* leaves the checkpoint as it is.
C6_Claim ==
    [][(pc = "post" /\ status' \in FailedAnswers)
          => (pc' # "dead" /\ file' = file /\ pointer' = pointer)]_vars

\* C7 (as claimed): a start without pointer file enters the backfill, and
\* when the backfill ends and polling begins the position is not below the
\* highest Id seen when the backfill began.
C7_Claim ==
    [][/\ (pc = "start" /\ ~file.exists /\ pc' \notin {"start", "dead"})
            => pc' = "bf_maxid"
       /\ (pc = "bf_fetch" /\ pc' = "poll_query") => pointer' >= seed']_vars

\* C8 (as claimed): a start that finds a non-negative integer v in the
\* pointer file (0 included) takes v as its position, writes it back
\* without entering the backfill, and polls from v with v in the file.
C8_Claim ==
    [][/\ (pc = "start" /\ pc' \notin {"start", "dead"}
             /\ FileValue.some /\ FileValue.val >= 0)
            => (pc' = "wb_open" /\ pointer' = FileValue.val)
       /\ (pc = "wb_write" /\ pc' # "dead")
            => (/\ pc' = "poll_query"
                /\ pointer' = pointer
                /\ ReadPointerValue(file') = Some(pointer))]_vars

\* C9 (as claimed): a pointer file that is present but holds no decimal
\* integer ends the process at the read: no backfill, no row shipped, no
\* write.
C9_Claim ==
    [][(pc = "start" /\ pc' # "start" /\ file.exists /\ ~FileValue.some)
          => (pc' = "dead" /\ file' = file /\ confirmed' = confirmed)]_vars

\* C10 (as claimed): after a kill of the process at any step, the pointer
\* file holds the last value completely written to it (the old or the new
\* value of an interrupted write), and is absent only if none was written.
C10_Claim ==
    (pc = "dead" /\ cause = "crash")
        => IF durable = <<>> THEN ~file.exists
           ELSE FileValue = Some(durable[1])

\* C11 (as claimed): a poll cycle that finds new rows sends them all in one
\* request (three rows: one payload of three streams; two rows of the same
\* labels: one payload of one stream) and ends with the highest of their
\* Ids in the pointer file.
C11_Claim ==
    /\ (pc = "post" /\ phase = "poll") => Ids(batch) = found
    /\ (pc = "sleep" /\ found # {})
          => (posts = 1 /\ FileValue = Some(Max(found)))

\* C11 (amended): a poll cycle that finds k new rows sends k requests, one
\* row each, every payload holding one stream with one value, and a cycle
\* that reaches its sleep ends with the highest of their Ids as position
\* and in the pointer file.
C11_OneRowPerRequest ==
    /\ pc = "post"
          => /\ Len(batch) = 1
             /\ Len(Data(RowsOf(batch))) = 1
             /\ Len(Data(RowsOf(batch))[1].values) = 1
    /\ pc = "sleep"
          => /\ posts = Cardinality(found)
             /\ found # {}
                  => (pointer = Max(found) /\ FileValue = Some(Max(found)))

\* C11 witness: a poll cycle found two rows and has reached its sleep.
C11_Witness ==
    /\ pc = "sleep"
    /\ Cardinality(found) = 2
    /\ posts = 2

\* C12 (as claimed): the backfill is entered only without a checkpoint, its
\* end leaves a checkpoint in the pointer file, and once a run has ended
\* its backfill no run enters the backfill again.
C12_Claim ==
    [][/\ (pc = "start" /\ pc' = "bf_maxid") => ~FileValue.some
       /\ (pc = "bf_fetch" /\ pc' = "poll_query")
            => ReadPointerValue(file').some
       /\ (bfDone /\ pc = "start") => pc' # "bf_maxid"]_vars

\* C13: within a run the Ids handed to Loki ascend strictly, in a batch
\* and from one request to the next, through backfill and polling: no row
\* is sent after a higher one and none is sent twice.
C13_Ascending ==
    pc = "post"
        => /\ \A id \in Ids(batch) : id > lastSent
           /\ \A i, j \in 1..Len(batch) : i < j => batch[i] < batch[j]

\* C13 witness: a run that backfilled is polling and about to send a row
\* after an earlier request of the same run was answered 204.
C13_Witness ==
    /\ pc = "post"
    /\ phase = "poll"
    /\ seed # 0
    /\ lastSent \in confirmed

\* C14 (as claimed): whenever the pointer file holds a value, the confirmed
\* rows above it all belong to the batch shipped most recently.
C14_Claim ==
    FileValue.some
        => {id \in confirmed : id > FileValue.val} \subseteq lastShipped

\* C15: a fetch that returns no row (of the polling query or of the
\* backfill query) is followed by the sleep, or by the polling loop, with
\* no request to Loki, no write of the pointer file and the same position.
C15_EmptyFetch ==
    [][/\ (pc = "poll_fetch" /\ result = <<>> /\ pc' \notin {pc, "dead"})
            => (pc' = "sleep" /\ file' = file /\ pointer' = pointer
                /\ posts' = posts /\ confirmed' = confirmed)
       /\ (pc = "bf_fetch" /\ result = <<>> /\ pc' \notin {pc, "dead"})
            => (pc' = "poll_query" /\ file' = file /\ pointer' = pointer
                /\ posts' = posts /\ confirmed' = confirmed)]_vars

\* C15 witness: the backfill query selected no row of a table that holds
\* rows, and the run has entered the polling loop without any request.
C15_Witness ==
    /\ pc = "poll_query"
    /\ seed # 0
    /\ found = {}
    /\ posts = 0
    /\ lastSent = 0
    /\ pointer = seed

\* C16 (as claimed): from a failed query of the source to the next batch
\* answered 204, the pointer file is not written and keeps its value.
C16_Claim == [][srcErr => file' = file]_vars

\* C16 (amended): a failed query of the source ends the process without a
\* write: in the failing step and for the rest of that run the pointer file
\* keeps its content.
C16_QueryErrorNoWrite == [][cause' = "MySQLError" => file' = file]_vars

\* C16 witness: a polling query failed in a run that holds a checkpoint.
C16_Witness ==
    /\ pc = "dead"
    /\ cause = "MySQLError"
    /\ phase = "poll"
    /\ FileValue.some

\* C17 (as claimed): when the start reads a checkpoint value and the
\* pointer file cannot be written, the process goes to the write-back and
\* ends there, before any query of the source and any request to Loki.
C17_Claim ==
    [][/\ (pc = "start" /\ ~writable /\ FileValue.some /\ FileValue.val >= 0
             /\ pc' \notin {"start", "dead"})
            => pc' = "wb_open"
       /\ (pc = "wb_open" /\ ~writable /\ pc' # "wb_open")
            => (pc' = "dead" /\ file' = file /\ found = {}
                /\ lastSent = 0)]_vars

\* What ends the process outside normal operation: a kill, an error of the
\* sink, of the source or of the pointer file.
AbnormalEnds ==
    {"crash", "AssertionError", "ConnectionError", "MySQLError",
     "PermissionError"}

\* C18 (as claimed, its safety part): without an error of the source, the
\* sink or the pointer file and without a kill, the process never ends,
\* whatever the pointer file and the table hold (an empty table included).
C18_Claim == pc = "dead" => cause \in AbnormalEnds

\* The names a level of 1 or higher would get if each debug level had its
\* own numbered category.
NumberedDebugNames ==
    {"debug1", "debug2", "debug3", "debug4", "debug5", "debug6", "debug7",
     "debug8", "debug9"}

\* The lowest level of the table of zm_level_name (NOLOG).
LevelFloor == -5

\* C19 (as claimed): 0 is named info, -1 warning, -2 error, a level of 1 or
\* higher gets a numbered debug category, and a level below the floor gets
\* the lowest category of the table, not 'unknown'.
C19_Claim ==
    levelOut # "" =>
        /\ levelIn = 0 => levelOut = "info"
        /\ levelIn = -1 => levelOut = "warning"
        /\ levelIn = -2 => levelOut = "error"
        /\ levelIn >= 1 => levelOut \in NumberedDebugNames
        /\ levelIn < LevelFloor =>
             (levelOut = zm_level_name(LevelFloor) /\ levelOut # "unknown")

\* C19 (amended): 0 is named info, -1 warning, -2 error, every level of 1
\* or higher gets the one category 'debug', and every level below the floor
\* -5 is named 'unknown'; no level raises an error.
C19_LevelNames ==
    levelOut # "" =>
        /\ levelIn = 0 => levelOut = "info"
        /\ levelIn = -1 => levelOut = "warning"
        /\ levelIn = -2 => levelOut = "error"
        /\ levelIn >= 1 => levelOut = "debug"
        /\ levelIn < LevelFloor => levelOut = "unknown"

\* C19 witness: zm_level_name was called with -6 and returned a name.
C19_Witness == levelIn = -6 /\ levelOut # ""

\* The values of the rows of a batch that carry the given stream labels, in
\* the order of the batch.
ValuesFor(rows, stream) ==
    LET mine == SelectSeq(rows, LAMBDA r : CommonLabels @@ Labels(r) = stream)
    IN [i \in 1..Len(mine) |-> Value(mine[i])]

RECURSIVE SumOfLens(_)
SumOfLens(groups) ==
    IF groups = <<>> THEN 0
    ELSE Len(Head(groups).values) + SumOfLens(Tail(groups))

\* C20: the payload of a batch holds one stream per distinct label key of
\* the batch, no two streams with the same labels; every row of the batch
\* is in exactly one stream, rows with identical component, server id, pid,
\* level, file and line in the same one; and the values of each stream are
\* those of its rows in the order of the batch.
C20_Grouping ==
    streamsOut # <<>> =>
        /\ \A i, j \in 1..Len(streamsOut) :
             i # j => streamsOut[i].stream # streamsOut[j].stream
        /\ {streamsOut[i].stream : i \in 1..Len(streamsOut)}
             = {CommonLabels @@ Labels(rowsIn[k]) : k \in 1..Len(rowsIn)}
        /\ \A i \in 1..Len(streamsOut) :
             streamsOut[i].values = ValuesFor(rowsIn, streamsOut[i].stream)
        /\ SumOfLens(streamsOut) = Len(rowsIn)

\* C20 witness: a batch of three rows whose first and third share their
\* labels and differ in their values, the second being of another stream.
C20_Witness ==
    /\ Len(rowsIn) = 3
    /\ Len(streamsOut) = 2
    /\ Labels(rowsIn[1]) = Labels(rowsIn[3])
    /\ Labels(rowsIn[1]) # Labels(rowsIn[2])
    /\ rowsIn[1].Level # rowsIn[3].Level
    /\ Value(rowsIn[1]) # Value(rowsIn[3])
    /\ Len(streamsOut[1].values) = 2

====
